---- MODULE Spec2Model ----
(***************************************************************************)
(* livelink: the link reconciliation engine of src/src/index.ts.           *)
(*                                                                         *)
(* A path is the sequence of its components ("/r/alpha/t1" is              *)
(* <<"r", "alpha", "t1">>, "/" is <<>>).  The filesystem is a function     *)
(* from a finite universe of paths to entries; removing, renaming and      *)
(* moving act on a path together with everything below it.                 *)
(***************************************************************************)
EXTENDS Integers, Sequences, FiniteSets, TLC

VARIABLES
    config,         \* yaml.load(configPath): ordered <<[name, patterns]>>
    legacySort,     \* the engine's Array.prototype.sort: insertion sort (TRUE) or TimSort
    linkGroups,     \* generateLinkGroups(rootDir, config)
    warnings,       \* logger.warn lines of generateLinkGroups: <<[name, path]>>
    fs,             \* the filesystem
    totalCreated,
    totalSkippedByChoice,
    totalSkippedExisting,
    totalSkippedMissingTarget,
    inquireExistingLinkToAnotherTargetAction,   \* "prompt", or the answer it was rebound to
    inquireExistingSyncEntityAction,
    inquireExistingTargetEntityAction,
    pc,             \* where main() stands
    gi,             \* main's loop index i (1-based)
    li,             \* processLinks' loop index i (1-based)
    action,         \* processLink's local `action` while the target prompt is open
    prompts,        \* every inquirer.prompt issued: <<[category, link, path]>>
    answers,        \* the answer to each of them, in the same order
    headers,        \* the group header lines logged by processLinks
    log,            \* the link lines logged by processLink
    calls,          \* what each processLink call found and did, in order
    printed,        \* how many times printFinalTotals ran
    exitCode,       \* the exit status of the process
    policy,         \* the answers the actor is ready to give, by conflict category
    phase,          \* which run of the program this is
    started,        \* the filesystem before the first run
    first           \* what the first run left: its end, its calls, its filesystem

vars == <<config, legacySort, linkGroups, warnings, fs, totalCreated,
          totalSkippedByChoice, totalSkippedExisting, totalSkippedMissingTarget,
          inquireExistingLinkToAnotherTargetAction, inquireExistingSyncEntityAction,
          inquireExistingTargetEntityAction, pc, gi, li, action, prompts, answers,
          headers, log, calls, printed, exitCode, policy, phase, started, first>>

(***************************************************************************)
(* Bounds of the model.                                                    *)
(***************************************************************************)
MaxGroups == 2          \* groups in a generated configuration
MaxPatterns == 2        \* target patterns of one group
MaxSymlinkHops == 3     \* symlinks followed before a lookup gives up (ELOOP)

(***************************************************************************)
(* Paths.                                                                  *)
(***************************************************************************)
Root == <<"r">>
T1 == <<"t1">>
T2 == <<"t2">>
X == <<"x">>
Y == <<"y">>

GroupNames == {"alpha", "Zebra", "Alpha"}

\* the UTF-16 code units of the group names
CharCodes ==
    [alpha |-> <<97, 108, 112, 104, 97>>,
     Zebra |-> <<90, 101, 98, 114, 97>>,
     Alpha |-> <<65, 108, 112, 104, 97>>]

Join(a, b) == a \o b

Dirname(p) == SubSeq(p, 1, Len(p) - 1)

IsPrefix(p, q) == Len(p) <= Len(q) /\ SubSeq(q, 1, Len(p)) = p

SyncDirOf(name) == Join(Root, <<name>>)

Sub(name) == Join(SyncDirOf(name), <<"s">>)

\* targetPath + '.livelink.original'
Original(p) ==
    LET c == p[Len(p)]
        s == CASE c = "t1" -> "t1.livelink.original"
               [] c = "t2" -> "t2.livelink.original"
               [] c = "s" -> "s.livelink.original"
    IN  [p EXCEPT ![Len(p)] = s]

PatternsOf(name) == {T1, T2, Root, SyncDirOf(name), Sub(name)}

Paths ==
    {Root, X, Y, T1, T2, Original(T1), Original(T2)}
    \cup {SyncDirOf(n) : n \in GroupNames}
    \cup {Sub(n) : n \in GroupNames}
    \cup {Original(Sub(n)) : n \in GroupNames}
    \cup UNION {{Join(SyncDirOf(n), p) : p \in PatternsOf(n)} : n \in GroupNames}

\* path.resolve(base, rel) for a relative rel
RECURSIVE Resolve(_, _)
Resolve(base, rel) ==
    IF rel = <<>> THEN base
    ELSE IF Head(rel) = ".."
         THEN Resolve(IF base = <<>> THEN <<>> ELSE Dirname(base), Tail(rel))
         ELSE Resolve(Append(base, Head(rel)), Tail(rel))

\* the relative spelling of absolute path p, as seen from directory dir
RECURSIVE Relative(_, _)
Relative(dir, p) ==
    IF dir = <<>> THEN p ELSE <<"..">> \o Relative(Dirname(dir), p)

(***************************************************************************)
(* Filesystem entries.  id names the entity (the path it started at), so   *)
(* that a moved or renamed entity can be recognised.                       *)
(***************************************************************************)
NoEnt == [k |-> "none", id |-> <<>>, abs |-> TRUE, to |-> <<>>]
File(p) == [k |-> "file", id |-> p, abs |-> TRUE, to |-> <<>>]
Dir(p) == [k |-> "dir", id |-> p, abs |-> TRUE, to |-> <<>>]
Symlink(a, t) == [k |-> "link", id |-> <<>>, abs |-> a, to |-> t]

\* fs.lstatSync(p) succeeds
LExists(f, p) == p \in DOMAIN f /\ f[p].k # "none"

\* where the symlink at p points: readlink, resolved against the link's directory
LinkTarget(f, p) ==
    IF f[p].abs THEN f[p].to ELSE Resolve(Dirname(p), f[p].to)

\* fs.existsSync(p), fs.statSync(p) succeeds: symlinks are followed
RECURSIVE ExistsWithin(_, _, _)
ExistsWithin(f, p, hops) ==
    IF ~LExists(f, p) THEN FALSE
    ELSE IF f[p].k # "link" THEN TRUE
    ELSE IF hops = 0 THEN FALSE
    ELSE ExistsWithin(f, LinkTarget(f, p), hops - 1)

Exists(f, p) == ExistsWithin(f, p, MaxSymlinkHops)

\* mkdirs(dir): dir and its missing ancestors become directories
Mkdirs(f, dir) ==
    [q \in DOMAIN f |->
        IF q # <<>> /\ IsPrefix(q, dir) /\ f[q].k = "none" THEN Dir(q) ELSE f[q]]

\* fs.removeSync(p): p and everything below it
RemoveSync(f, p) ==
    [q \in DOMAIN f |-> IF IsPrefix(p, q) THEN NoEnt ELSE f[q]]

\* fs.renameSync(src, dst): src and everything below it now lives at dst
RenameSync(f, src, dst) ==
    [q \in DOMAIN f |->
        IF IsPrefix(dst, q)
        THEN LET from == Join(src, SubSeq(q, Len(dst) + 1, Len(q)))
             IN  IF from \in DOMAIN f THEN f[from] ELSE NoEnt
        ELSE IF IsPrefix(src, q) THEN NoEnt
        ELSE f[q]]

\* fs.moveSync(src, dst), overwrite off: the parent of dst is made, then a rename
MoveSync(f, src, dst) == RenameSync(Mkdirs(f, Dirname(dst)), src, dst)

\* fs.ensureSymlink(target, link): nothing when link exists, else an absolute symlink
EnsureSymlink(f, target, link) ==
    IF Exists(f, link) THEN f
    ELSE [Mkdirs(f, Dirname(link)) EXCEPT ![link] = Symlink(TRUE, target)]

(***************************************************************************)
(* generateLinkGroups: the sort of the group names.                        *)
(***************************************************************************)
ToUpperCase(cs) ==
    [i \in DOMAIN cs |-> IF cs[i] >= 97 /\ cs[i] <= 122 THEN cs[i] - 32 ELSE cs[i]]

\* a < b on strings: by code unit, a proper prefix first
StrLess(a, b) ==
    \E i \in 1..(Len(b)) :
        /\ \A j \in 1..(i - 1) : j <= Len(a) /\ a[j] = b[j]
        /\ \/ i = Len(a) + 1
           \/ i <= Len(a) /\ a[i] < b[i]

\* the comparator without toUpperCase
Compare_CaseSensitive(x, y) ==
    IF StrLess(CharCodes[x], CharCodes[y]) THEN -1 ELSE 1

\* the comparator handed to sort
Compare(x, y) ==
    IF StrLess(ToUpperCase(CharCodes[x]), ToUpperCase(CharCodes[y])) THEN -1 ELSE 1

InsertAt(s, pos, e) == SubSeq(s, 1, pos - 1) \o <<e>> \o SubSeq(s, pos, Len(s))

Reverse(s) == [i \in 1..Len(s) |-> s[Len(s) + 1 - i]]

\* insertion sort (the engines that sort short arrays so): a[j] moves right while
\* comparefn(a[j], element) > 0
RECURSIVE InsertionPoint(_, _, _)
InsertionPoint(s, e, j) ==
    IF j >= 1 /\ Compare(s[j], e) > 0 THEN InsertionPoint(s, e, j - 1) ELSE j + 1

RECURSIVE InsertionSort(_, _)
InsertionSort(a, i) ==
    IF i > Len(a) THEN a
    ELSE LET e == a[i]
             before == SubSeq(a, 1, i - 1)
             pos == InsertionPoint(before, e, i - 1)
         IN  InsertionSort(InsertAt(before, pos, e) \o SubSeq(a, i + 1, Len(a)), i + 1)

\* TimSort on a short array: one run is counted (a strictly descending one is
\* reversed), the rest is inserted by binary search
RECURSIVE RunEnd(_, _, _)
RunEnd(a, idx, desc) ==
    IF idx > Len(a) THEN Len(a)
    ELSE LET order == Compare(a[idx], a[idx - 1])
         IN  IF (desc /\ order >= 0) \/ (~desc /\ order < 0)
             THEN idx - 1
             ELSE RunEnd(a, idx + 1, desc)

RECURSIVE BinarySearch(_, _, _, _)
BinarySearch(a, pivot, left, right) ==
    IF left >= right THEN left
    ELSE LET mid == left + ((right - left) \div 2)
         IN  IF Compare(pivot, a[mid]) < 0
             THEN BinarySearch(a, pivot, left, mid)
             ELSE BinarySearch(a, pivot, mid + 1, right)

RECURSIVE BinaryInsertionSort(_, _)
BinaryInsertionSort(a, start) ==
    IF start > Len(a) THEN a
    ELSE LET pivot == a[start]
             pos == BinarySearch(a, pivot, 1, start)
         IN  BinaryInsertionSort(
                 InsertAt(SubSeq(a, 1, start - 1), pos, pivot)
                     \o SubSeq(a, start + 1, Len(a)),
                 start + 1)

TimSort(a) ==
    IF Len(a) < 2 THEN a
    ELSE LET desc == Compare(a[2], a[1]) < 0
             run == RunEnd(a, 3, desc)
             arr == IF desc
                    THEN Reverse(SubSeq(a, 1, run)) \o SubSeq(a, run + 1, Len(a))
                    ELSE a
         IN  BinaryInsertionSort(arr, run + 1)

\* _(config).keys().sort(...)
SortedKeys(cfg, legacy) ==
    LET keys == [i \in 1..Len(cfg) |-> cfg[i].name]
    IN  IF legacy THEN InsertionSort(keys, 2) ELSE TimSort(keys)

(***************************************************************************)
(* generateLinkGroups: the targets of one group.                           *)
(***************************************************************************)
\* glob.sync of a pattern without wildcards: the path, when something is there
GlobSync(f, p) == IF LExists(f, p) THEN <<p>> ELSE <<>>

\* p.replace(syncDir, '')
StripSyncDir(syncDir, p) ==
    IF IsPrefix(syncDir, p) THEN SubSeq(p, Len(syncDir) + 1, Len(p)) ELSE p

\* the candidates of one pattern: matches in the target path, then matches
\* relative to the sync directory
Candidates(f, syncDir, fullTargetGlob) ==
    LET rel == GlobSync(f, Join(syncDir, fullTargetGlob))
    IN  GlobSync(f, fullTargetGlob)
            \o [i \in 1..Len(rel) |-> StripSyncDir(syncDir, rel[i])]

RECURSIVE Flatten(_)
Flatten(ss) == IF ss = <<>> THEN <<>> ELSE Head(ss) \o Flatten(Tail(ss))

Contains(s, e) == \E i \in 1..Len(s) : s[i] = e

\* of the occurrences of a value the last one is kept
RECURSIVE Uniq_LastSeen(_)
Uniq_LastSeen(s) ==
    IF s = <<>> THEN <<>>
    ELSE IF Contains(Tail(s), Head(s)) THEN Uniq_LastSeen(Tail(s))
         ELSE <<Head(s)>> \o Uniq_LastSeen(Tail(s))

RECURSIVE Uniq(_)
Uniq(s) ==
    IF s = <<>> THEN <<>>
    ELSE LET front == Uniq(SubSeq(s, 1, Len(s) - 1))
             e == s[Len(s)]
         IN  IF Contains(front, e) THEN front ELSE Append(front, e)

RECURSIVE Filter(_, _)
Filter(s, keep) ==
    IF s = <<>> THEN <<>>
    ELSE IF keep[Head(s)] THEN <<Head(s)>> \o Filter(Tail(s), keep)
         ELSE Filter(Tail(s), keep)

\* the parts of noTrailingSep(p).split(path.sep)
Parts(p) == <<"">> \o p

\* the two paths taken the other way round
isSameOrSubpath_Swapped(subpath, parent) ==
    LET parentParts == Parts(subpath)
        subpathParts == Parts(parent)
    IN  \A pos \in 1..Len(parentParts) :
            pos <= Len(subpathParts) /\ subpathParts[pos] = parentParts[pos]

isSameOrSubpath(subpath, parent) ==
    LET parentParts == Parts(parent)
        subpathParts == Parts(subpath)
    IN  \A pos \in 1..Len(parentParts) :
            pos <= Len(subpathParts) /\ subpathParts[pos] = parentParts[pos]

\* the link name is the directory of the target, not the target path itself
RECURSIVE Reduce_ByDirname(_, _)
Reduce_ByDirname(acc, targets) ==
    IF targets = <<>> THEN acc
    ELSE LET targetPath == Head(targets)
             linkFileName == Dirname(targetPath)
             at == {i \in 1..Len(acc) : acc[i].linkName = linkFileName}
             entry == [linkName |-> linkFileName, targetPath |-> targetPath]
         IN  Reduce_ByDirname(IF at = {} THEN Append(acc, entry)
                              ELSE [i \in 1..Len(acc) |->
                                        IF i \in at THEN entry ELSE acc[i]],
                              Tail(targets))

\* { ...acc, [linkFileName]: targetPath }: a key that is there keeps its place
RECURSIVE Reduce(_, _)
Reduce(acc, targets) ==
    IF targets = <<>> THEN acc
    ELSE LET targetPath == Head(targets)
             linkFileName == targetPath
             at == {i \in 1..Len(acc) : acc[i].linkName = linkFileName}
             entry == [linkName |-> linkFileName, targetPath |-> targetPath]
         IN  Reduce(IF at = {} THEN Append(acc, entry)
                    ELSE [i \in 1..Len(acc) |-> IF i \in at THEN entry ELSE acc[i]],
                    Tail(targets))

\* .map(...).flatten().uniq() of one group's patterns
ExpandedTargets(f, syncDir, patterns) ==
    Uniq(Flatten([i \in 1..Len(patterns) |-> Candidates(f, syncDir, patterns[i])]))

\* only the sync directory itself counts as cyclic
IsCyclic_SameOnly(syncDir, targetPath) == syncDir = targetPath

IsCyclic(syncDir, targetPath) == isSameOrSubpath(syncDir, targetPath)

GroupOf(f, entry) ==
    LET syncDir == SyncDirOf(entry.name)
        expanded == ExpandedTargets(f, syncDir, entry.patterns)
        keep == [t \in {expanded[i] : i \in 1..Len(expanded)} |-> ~IsCyclic(syncDir, t)]
    IN  [name |-> entry.name, syncDir |-> syncDir,
         links |-> Reduce(<<>>, Filter(expanded, keep))]

WarningsOf(f, entry) ==
    LET syncDir == SyncDirOf(entry.name)
        expanded == ExpandedTargets(f, syncDir, entry.patterns)
        cyclic == [t \in {expanded[i] : i \in 1..Len(expanded)} |-> IsCyclic(syncDir, t)]
        dropped == Filter(expanded, cyclic)
    IN  [i \in 1..Len(dropped) |-> [name |-> entry.name, path |-> dropped[i]]]

ConfigEntry(cfg, name) == cfg[CHOOSE i \in 1..Len(cfg) : cfg[i].name = name]

generateLinkGroups(f, cfg, legacy) ==
    LET keys == SortedKeys(cfg, legacy)
    IN  [i \in 1..Len(keys) |-> GroupOf(f, ConfigEntry(cfg, keys[i]))]

GenerateWarnings(f, cfg, legacy) ==
    LET keys == SortedKeys(cfg, legacy)
    IN  Flatten([i \in 1..Len(keys) |-> WarningsOf(f, ConfigEntry(cfg, keys[i]))])

(***************************************************************************)
(* processLink.                                                            *)
(***************************************************************************)
ChoiceOption == {"MoveRelink", "MoveRelinkAll", "Replace", "ReplaceAll", "Skip", "SkipAll"}

foreverAnswers == {"MoveRelinkAll", "ReplaceAll", "SkipAll"}

SkippedMissingTarget == "Skipped (missing target)"

\* the choices each prompt offers
LinkChoices == {"Skip", "SkipAll", "Replace", "ReplaceAll"}
EntityChoices == ChoiceOption
TargetChoices == {"Skip", "SkipAll", "Replace", "ReplaceAll"}

IsReplace(a) == a = "Replace" \/ a = "ReplaceAll"
IsMoveRelink(a) == a = "MoveRelink" \/ a = "MoveRelinkAll"
IsSkip(a) == a = "Skip" \/ a = "SkipAll"

\* the link's own text is compared, a relative one unresolved
LinkState_Unresolved(f, linkPath, targetPath) ==
    IF ~LExists(f, linkPath) THEN "Absent"
    ELSE IF f[linkPath].k = "link"
         THEN IF f[linkPath].to = targetPath
              THEN "SymlinkCorrect"
              ELSE "SymlinkIncorrect"
         ELSE "PhysicalEntity"

\* what getStat, isSymbolicLink, readlinkSync and the comparison find at linkPath
LinkState(f, linkPath, targetPath) ==
    IF ~LExists(f, linkPath) THEN "Absent"
    ELSE IF f[linkPath].k = "link"
         THEN IF LinkTarget(f, linkPath) = targetPath
              THEN "SymlinkCorrect"
              ELSE "SymlinkIncorrect"
         ELSE "PhysicalEntity"

\* the locals and globals one processLink call works on
Frame(f) ==
    [fs |-> f, skip |-> FALSE, notableOutcome |-> "",
     created |-> totalCreated, byChoice |-> totalSkippedByChoice,
     existing |-> totalSkippedExisting, missing |-> totalSkippedMissingTarget,
     ops |-> <<>>, failed |-> FALSE, faultAt |-> 0,
     atCreate |-> [reached |-> FALSE, linkOccupied |-> FALSE, targetExists |-> FALSE]]

\* one mutating call of fs-extra: it throws when the frame has failed it (the
\* faultAt-th mutation of the call meets a permission or I/O error, or the
\* process is stopped there), else the filesystem becomes f2
Mutate(fr, op, path, f2) ==
    IF fr.failed THEN fr
    ELSE IF fr.faultAt = Len(fr.ops) + 1 THEN [fr EXCEPT !.failed = TRUE]
    ELSE [fr EXCEPT !.fs = f2, !.ops = Append(@, [op |-> op, path |-> path])]

\* as in the release without the missing-target counter
SkipMissingTarget_Uncounted(fr) ==
    [fr EXCEPT !.skip = TRUE, !.notableOutcome = SkippedMissingTarget]

SkipMissingTarget(fr) ==
    [fr EXCEPT !.skip = TRUE, !.notableOutcome = SkippedMissingTarget,
               !.missing = @ + 1]

\* the skip is counted but the skip flag is not set
SkipByChoice_Unset(fr) == [fr EXCEPT !.byChoice = @ + 1]

SkipByChoice(fr) == [fr EXCEPT !.skip = TRUE, !.byChoice = @ + 1]

\* the link that is already right is counted as made anew
AlreadyCorrect_Recreated(fr) == [fr EXCEPT !.skip = TRUE, !.created = @ + 1]

\* already links to the desired target
AlreadyCorrect(fr) == [fr EXCEPT !.skip = TRUE, !.existing = @ + 1]

\* replace or replace-all that leaves the entry at linkPath in place
ReplaceBranch_Keeping(fr, linkPath, targetPath) ==
    IF Exists(fr.fs, targetPath) THEN fr ELSE SkipMissingTarget(fr)

\* replace or replace-all: the entry at linkPath goes when the target exists
ReplaceBranch(fr, linkPath, targetPath) ==
    IF Exists(fr.fs, targetPath)
    THEN Mutate(fr, "remove", linkPath, RemoveSync(fr.fs, linkPath))
    ELSE SkipMissingTarget(fr)

\* links to a different target than desired, once the action is known
SymlinkBranch(fr, linkPath, targetPath, a) ==
    IF IsReplace(a) THEN ReplaceBranch(fr, linkPath, targetPath)
    ELSE SkipByChoice(fr)

\* a move-and-relink-all covers the target as well: only the once-answer asks
NeedsTargetAction_OnceOnly(f, targetPath, a) ==
    a = "MoveRelink" /\ Exists(f, targetPath)

\* the target prompt comes with every move-and-relink
NeedsTargetAction_Always(f, targetPath, a) == IsMoveRelink(a)

\* the target prompt is reached: move-and-relink with something at the target path
NeedsTargetAction(f, targetPath, a) == IsMoveRelink(a) /\ Exists(f, targetPath)

\* fs.moveSync(linkPath, targetPath): with a dangling symlink left at targetPath
\* the move overwrites it or throws, as the fs-extra release has it
MoveStep(fr, linkPath, targetPath, clobber) ==
    IF LExists(fr.fs, targetPath) /\ ~clobber
    THEN [fr EXCEPT !.failed = TRUE]
    ELSE Mutate(fr, "move", linkPath, MoveSync(fr.fs, linkPath, targetPath))

\* the entity at the target path is removed, not renamed aside
MoveRelinkBranch_Deleting(fr, linkPath, targetPath, targetAction, clobber) ==
    LET fr1 == IF Exists(fr.fs, targetPath)
               THEN IF IsReplace(targetAction)
                    THEN Mutate(fr, "remove", targetPath,
                                RemoveSync(fr.fs, targetPath))
                    ELSE SkipByChoice(fr)
               ELSE fr
    IN  IF ~fr1.skip /\ ~fr1.failed
        THEN MoveStep(fr1, linkPath, targetPath, clobber)
        ELSE fr1

\* a skip at the target prompt is counted but the move goes on
MoveRelinkBranch_SkipIgnored(fr, linkPath, targetPath, targetAction, clobber) ==
    LET fr1 == IF Exists(fr.fs, targetPath)
               THEN IF IsReplace(targetAction)
                    THEN Mutate(fr, "rename", targetPath,
                                RenameSync(fr.fs, targetPath, Original(targetPath)))
                    ELSE [fr EXCEPT !.byChoice = @ + 1]
               ELSE fr
    IN  IF ~fr1.skip /\ ~fr1.failed
        THEN MoveStep(fr1, linkPath, targetPath, clobber)
        ELSE fr1

\* move-and-relink, with the target action when the target path is occupied
MoveRelinkBranch(fr, linkPath, targetPath, targetAction, clobber) ==
    LET fr1 == IF Exists(fr.fs, targetPath)
               THEN IF IsReplace(targetAction)
                    THEN Mutate(fr, "rename", targetPath,
                                RenameSync(fr.fs, targetPath, Original(targetPath)))
                    ELSE SkipByChoice(fr)
               ELSE fr
    IN  IF ~fr1.skip /\ ~fr1.failed
        THEN MoveStep(fr1, linkPath, targetPath, clobber)
        ELSE fr1

\* an actual file or directory in place of the link, once the actions are known
EntityBranch(fr, linkPath, targetPath, a, targetAction, clobber) ==
    LET fr1 == IF IsReplace(a) THEN ReplaceBranch(fr, linkPath, targetPath) ELSE fr
        fr2 == IF IsMoveRelink(a)
               THEN MoveRelinkBranch(fr1, linkPath, targetPath, targetAction, clobber)
               ELSE fr1
    IN  IF fr2.failed THEN fr2
        ELSE IF IsSkip(a) THEN SkipByChoice(fr2) ELSE fr2

\* fs.ensureSymlink throws when a dangling symlink sits at linkPath
CreateStep(fr, linkPath, targetPath) ==
    LET at == [fr EXCEPT !.atCreate =
                    [reached |-> TRUE, linkOccupied |-> LExists(fr.fs, linkPath),
                     targetExists |-> Exists(fr.fs, targetPath)]]
        made == Mutate(at, "symlink", linkPath,
                       EnsureSymlink(fr.fs, targetPath, linkPath))
    IN  IF LExists(fr.fs, linkPath) /\ ~Exists(fr.fs, linkPath)
        THEN [at EXCEPT !.failed = TRUE]
        ELSE IF made.failed THEN made
        ELSE [made EXCEPT !.created = @ + 1]

\* the creation without the missing-target check
TailOf_Unchecked(fr, linkPath, targetPath) ==
    IF fr.failed THEN fr
    ELSE IF ~fr.skip THEN CreateStep(fr, linkPath, targetPath) ELSE fr

\* the end of processLink: the missing-target check and the creation
TailOf(fr, linkPath, targetPath) ==
    IF fr.failed THEN fr
    ELSE LET fr1 == IF ~fr.skip /\ ~Exists(fr.fs, targetPath)
                    THEN SkipMissingTarget(fr)
                    ELSE fr
         IN  IF ~fr1.skip THEN CreateStep(fr1, linkPath, targetPath) ELSE fr1

\* processLink from its start to its end, given the answers it gets
RunLink(f, linkPath, targetPath, a, targetAction, clobber, fault) ==
    LET state == LinkState(f, linkPath, targetPath)
        fr == [Frame(f) EXCEPT !.faultAt = fault]
        body == CASE state = "Absent" -> fr
                  [] state = "SymlinkCorrect" -> AlreadyCorrect(fr)
                  [] state = "SymlinkIncorrect" ->
                        SymlinkBranch(fr, linkPath, targetPath, a)
                  [] state = "PhysicalEntity" ->
                        EntityBranch(fr, linkPath, targetPath, a, targetAction, clobber)
    IN  TailOf(body, linkPath, targetPath)

(***************************************************************************)
(* main, processLinks and the prompts, as steps.                           *)
(***************************************************************************)
stickyVars == <<inquireExistingLinkToAnotherTargetAction,
                inquireExistingSyncEntityAction,
                inquireExistingTargetEntityAction>>

totals == <<totalCreated, totalSkippedByChoice, totalSkippedExisting,
            totalSkippedMissingTarget>>

genVars == <<config, legacySort, linkGroups, warnings>>

\* what no step of a run changes
runVars == <<policy, phase, started, first>>

\* which mutation of a processLink call fails or is cut off (0: none); a call
\* makes three at most (rename, move, symlink)
FaultPoints == IF phase \in {"faulty", "interrupted"} THEN 0..3 ELSE {0}

\* the exit status after an exception has left main: the rejection of main()'s
\* promise is handled nowhere, which ends the process with status 1 or only
\* warns (status 0), as the Node.js release has it
Rejected == {0, 1}

CurGroup == linkGroups[gi]
CurLinkName == CurGroup.links[li].linkName
CurTarget == CurGroup.links[li].targetPath
\* path.join(group.syncDir, linkName)
CurLinkPath == Join(CurGroup.syncDir, CurLinkName)

\* one memory shared by the three categories
StickyFor_Shared(category) ==
    IF inquireExistingLinkToAnotherTargetAction # "prompt"
    THEN inquireExistingLinkToAnotherTargetAction
    ELSE IF inquireExistingSyncEntityAction # "prompt"
         THEN inquireExistingSyncEntityAction
         ELSE inquireExistingTargetEntityAction

\* the sticky memory of a conflict category: "prompt" while the function still asks
StickyFor(category) ==
    CASE category = "link" -> inquireExistingLinkToAnotherTargetAction
      [] category = "entity" -> inquireExistingSyncEntityAction
      [] category = "target" -> inquireExistingTargetEntityAction

\* the function is never rebound
Rebind_Never(current, answer) == current

\* the function is rebound on every answer
Rebind_Always(current, answer) == answer

\* if (foreverAnswers.includes(answers.action)) the function is rebound
Rebind(current, answer) == IF answer \in foreverAnswers THEN answer ELSE current

\* processLink returns (or throws): its effects, its log line, the loop moves on
Complete(fr, a, targetAction) ==
    /\ fs' = fr.fs
    /\ totalCreated' = fr.created
    /\ totalSkippedByChoice' = fr.byChoice
    /\ totalSkippedExisting' = fr.existing
    /\ totalSkippedMissingTarget' = fr.missing
    /\ calls' = Append(calls,
                [group |-> CurGroup.name, linkPath |-> CurLinkPath,
                 targetPath |-> CurTarget,
                 state |-> LinkState(fs, CurLinkPath, CurTarget),
                 targetExists |-> Exists(fs, CurTarget),
                 action |-> a, targetAction |-> targetAction,
                 ops |-> fr.ops, failed |-> fr.failed, atCreate |-> fr.atCreate,
                 counted |-> <<fr.created - totalCreated,
                               fr.byChoice - totalSkippedByChoice,
                               fr.existing - totalSkippedExisting,
                               fr.missing - totalSkippedMissingTarget>>])
    /\ action' = "none"
    /\ IF fr.failed
       THEN /\ pc' = "failed"
            /\ exitCode' \in Rejected
            /\ UNCHANGED <<gi, li, log>>
       ELSE /\ exitCode' = exitCode
            /\ log' = Append(log, [group |-> CurGroup.name, linkPath |-> CurLinkPath,
                                   targetPath |-> CurTarget,
                                   notableOutcome |-> fr.notableOutcome])
            /\ IF li < Len(CurGroup.links)
               THEN pc' = "links" /\ li' = li + 1 /\ gi' = gi
               ELSE pc' = "main" /\ li' = 1 /\ gi' = gi + 1
    /\ UNCHANGED <<genVars, runVars, headers, printed>>

\* the entry at the link path is removed before the actor is asked
Suspend_Eager(at, a, category, path) ==
    /\ pc' = at
    /\ action' = a
    /\ fs' = RemoveSync(fs, CurLinkPath)
    /\ prompts' = Append(prompts, [category |-> category, link |-> CurLinkPath,
                                    path |-> path])
    /\ UNCHANGED <<genVars, runVars, totals, gi, li, headers, log, calls, printed,
                   exitCode>>

\* an inquirer.prompt is issued and awaited
Suspend(at, a, category, path) ==
    /\ pc' = at
    /\ action' = a
    /\ prompts' = Append(prompts, [category |-> category, link |-> CurLinkPath,
                                    path |-> path])
    /\ UNCHANGED <<genVars, runVars, fs, totals, gi, li, headers, log, calls, printed,
                   exitCode>>

\* an exception leaves main
Throw ==
    /\ pc' = "failed"
    /\ exitCode' \in Rejected
    /\ UNCHANGED <<genVars, runVars, fs, totals, gi, li, action, prompts, headers, log,
                   calls, printed>>

\* the physical-entity branch once `action` is known
WithEntityAction(a) ==
    IF NeedsTargetAction(fs, CurTarget, a)
    THEN IF StickyFor("target") # "prompt"
         THEN \E fault \in FaultPoints :
                /\ Complete(RunLink(fs, CurLinkPath, CurTarget, a,
                                    StickyFor("target"), TRUE, fault),
                            a, StickyFor("target"))
                /\ UNCHANGED prompts
         ELSE Suspend("askTarget", a, "target", CurTarget)
    ELSE \E clobber \in BOOLEAN, fault \in FaultPoints :
            /\ Complete(RunLink(fs, CurLinkPath, CurTarget, a, "none", clobber,
                                fault),
                        a, "none")
            /\ UNCHANGED prompts

GenerateLinkGroups ==
    /\ pc = "start"
    /\ linkGroups' = generateLinkGroups(fs, config, legacySort)
    /\ warnings' = GenerateWarnings(fs, config, legacySort)
    /\ pc' = "main"
    /\ UNCHANGED <<config, legacySort, runVars, fs, totals, stickyVars, gi, li, action,
                   prompts, answers, headers, log, calls, printed, exitCode>>

\* the prompt functions are set back when a group is entered
ProcessLinks_Forgetting ==
    /\ pc = "main"
    /\ gi <= Len(linkGroups)
    /\ headers' = Append(headers, CurGroup.name)
    /\ IF Len(CurGroup.links) > 0
       THEN pc' = "links" /\ gi' = gi
       ELSE pc' = "main" /\ gi' = gi + 1
    /\ li' = 1
    /\ inquireExistingLinkToAnotherTargetAction' = "prompt"
    /\ inquireExistingSyncEntityAction' = "prompt"
    /\ inquireExistingTargetEntityAction' = "prompt"
    /\ UNCHANGED <<genVars, runVars, fs, totals, action, prompts, answers,
                   log, calls, printed, exitCode>>

\* processLinks(linkGroups[i]) is entered: the header line
ProcessLinks ==
    /\ pc = "main"
    /\ gi <= Len(linkGroups)
    /\ headers' = Append(headers, CurGroup.name)
    /\ IF Len(CurGroup.links) > 0
       THEN pc' = "links" /\ gi' = gi
       ELSE pc' = "main" /\ gi' = gi + 1
    /\ li' = 1
    /\ UNCHANGED <<genVars, runVars, fs, totals, stickyVars, action, prompts, answers,
                   log, calls, printed, exitCode>>

\* processLink(group.name, linkPath, targetPath) up to its first open prompt
ProcessLink ==
    /\ pc = "links"
    /\ UNCHANGED <<stickyVars, answers>>
    /\ LET state == LinkState(fs, CurLinkPath, CurTarget)
       IN  CASE state \in {"Absent", "SymlinkCorrect"} ->
                    \E fault \in FaultPoints :
                        /\ Complete(RunLink(fs, CurLinkPath, CurTarget, "none",
                                            "none", TRUE, fault), "none", "none")
                        /\ UNCHANGED prompts
             [] state = "SymlinkIncorrect" ->
                    IF StickyFor("link") # "prompt"
                    THEN \E fault \in FaultPoints :
                            /\ Complete(RunLink(fs, CurLinkPath, CurTarget,
                                            StickyFor("link"), "none", TRUE, fault),
                                        StickyFor("link"), "none")
                            /\ UNCHANGED prompts
                    ELSE IF ~Exists(fs, LinkTarget(fs, CurLinkPath))
                         THEN Throw     \* fs.statSync(currentTarget)
                         ELSE Suspend("askLink", "none", "link", CurLinkPath)
             [] state = "PhysicalEntity" ->
                    IF StickyFor("entity") # "prompt"
                    THEN WithEntityAction(StickyFor("entity"))
                    ELSE Suspend("askEntity", "none", "entity", CurLinkPath)

\* the actor answers the prompt of inquireExistingLinkToAnotherTargetAction
AnswerLinkToAnotherTarget ==
    /\ pc = "askLink"
    /\ \E answer \in LinkChoices \cap policy["link"], fault \in FaultPoints :
        /\ inquireExistingLinkToAnotherTargetAction' =
                Rebind(inquireExistingLinkToAnotherTargetAction, answer)
        /\ answers' = Append(answers, [category |-> "link", answer |-> answer])
        /\ Complete(RunLink(fs, CurLinkPath, CurTarget, answer, "none", TRUE, fault),
                    answer, "none")
    /\ UNCHANGED <<inquireExistingSyncEntityAction, inquireExistingTargetEntityAction,
                   prompts>>

\* the actor answers the prompt of inquireExistingSyncEntityAction
AnswerSyncEntity ==
    /\ pc = "askEntity"
    /\ \E answer \in EntityChoices \cap policy["entity"] :
        /\ inquireExistingSyncEntityAction' =
                Rebind(inquireExistingSyncEntityAction, answer)
        /\ answers' = Append(answers, [category |-> "entity", answer |-> answer])
        /\ WithEntityAction(answer)
    /\ UNCHANGED <<inquireExistingLinkToAnotherTargetAction,
                   inquireExistingTargetEntityAction>>

\* the actor answers the prompt of inquireExistingTargetEntityAction
AnswerTargetEntity ==
    /\ pc = "askTarget"
    /\ \E answer \in TargetChoices \cap policy["target"], fault \in FaultPoints :
        /\ inquireExistingTargetEntityAction' =
                Rebind(inquireExistingTargetEntityAction, answer)
        /\ answers' = Append(answers, [category |-> "target", answer |-> answer])
        /\ Complete(RunLink(fs, CurLinkPath, CurTarget, action, answer, TRUE, fault),
                    action, answer)
    /\ UNCHANGED <<inquireExistingLinkToAnotherTargetAction,
                   inquireExistingSyncEntityAction, prompts>>

\* the totals are printed whenever a group has been left, not after the last
PrintFinalTotals_Early ==
    /\ pc = "main"
    /\ printed' = printed + 1
    /\ pc' = "done"
    /\ exitCode' = 0
    /\ UNCHANGED <<genVars, runVars, fs, totals, stickyVars, gi, li, action, prompts,
                   answers, headers, log, calls>>

PrintFinalTotals ==
    /\ pc = "main"
    /\ gi > Len(linkGroups)
    /\ printed' = printed + 1
    /\ pc' = "done"
    /\ exitCode' = 0
    /\ UNCHANGED <<genVars, runVars, fs, totals, stickyVars, gi, li, action, prompts,
                   answers, headers, log, calls>>

Next ==
    \/ GenerateLinkGroups
    \/ ProcessLinks
    \/ ProcessLink
    \/ AnswerLinkToAnotherTarget
    \/ AnswerSyncEntity
    \/ AnswerTargetEntity
    \/ PrintFinalTotals

(***************************************************************************)
(* Initial states.                                                         *)
(***************************************************************************)
\* every directory that holds something is there
WithParents(f) ==
    [q \in DOMAIN f |->
        IF f[q].k = "none" /\ \E p \in DOMAIN f : p # q /\ IsPrefix(q, p) /\ f[p].k # "none"
        THEN Dir(q)
        ELSE f[q]]

EmptyFs == [p \in Paths |-> IF p = Root THEN Dir(Root) ELSE IF p = X THEN File(X) ELSE NoEnt]

\* what may sit at a link path before the run
LinkEntries(linkPath, targetPath) ==
    {NoEnt, File(linkPath), Symlink(TRUE, targetPath), Symlink(TRUE, X),
     Symlink(TRUE, Y)}

\* the same link to the target, spelled relative to the link's directory
RelativeLink(linkPath, targetPath) ==
    Symlink(FALSE, Relative(Dirname(linkPath), targetPath))

\* what may sit at a target path before the run
TargetEntries(targetPath) == {NoEnt, File(targetPath), Symlink(TRUE, Y)}

\* the actor may give any answer a prompt offers
AnyAnswer == [category \in {"link", "entity", "target"} |-> ChoiceOption]

\* the filesystem of a run: the entries at the three link paths, at the two
\* targets and at the place /t1 would be renamed to
StartFs(a1, a2, z1, t1, t2, o1) ==
    WithParents([EmptyFs EXCEPT
                    ![Join(SyncDirOf("alpha"), T1)] = a1,
                    ![Join(SyncDirOf("alpha"), T2)] = a2,
                    ![Join(SyncDirOf("Zebra"), T1)] = z1,
                    ![T1] = t1,
                    ![T2] = t2,
                    ![Original(T1)] = o1])

InitRun ==
    /\ pc = "start"
    /\ gi = 1
    /\ li = 1
    /\ action = "none"
    /\ linkGroups = <<>>
    /\ warnings = <<>>
    /\ totalCreated = 0
    /\ totalSkippedByChoice = 0
    /\ totalSkippedExisting = 0
    /\ totalSkippedMissingTarget = 0
    /\ inquireExistingLinkToAnotherTargetAction = "prompt"
    /\ inquireExistingSyncEntityAction = "prompt"
    /\ inquireExistingTargetEntityAction = "prompt"
    /\ prompts = <<>>
    /\ answers = <<>>
    /\ headers = <<>>
    /\ log = <<>>
    /\ calls = <<>>
    /\ printed = 0
    /\ exitCode = 0
    /\ first = [pc |-> "none", calls |-> <<>>, fs |-> <<>>]

\* two groups that share a target, every state of their three link paths; the
\* shared target may itself be a symlink to the place of its link in alpha
Init ==
    /\ InitRun
    /\ phase = "first"
    /\ policy = AnyAnswer
    /\ legacySort = FALSE
    /\ config \in
        {<<[name |-> "Zebra", patterns |-> <<T1>>],
           [name |-> "alpha", patterns |-> <<T1, T2>>]>>,
         <<[name |-> "alpha", patterns |-> <<T1, T2>>],
           [name |-> "Zebra", patterns |-> <<T1>>]>>}
    /\ \E a1 \in LinkEntries(Join(SyncDirOf("alpha"), T1), T1)
                    \cup {RelativeLink(Join(SyncDirOf("alpha"), T1), T1)},
          a2 \in LinkEntries(Join(SyncDirOf("alpha"), T2), T2),
          z1 \in LinkEntries(Join(SyncDirOf("Zebra"), T1), T1),
          t1 \in TargetEntries(T1) \cup {Symlink(TRUE, Join(SyncDirOf("alpha"), T1))},
          t2 \in TargetEntries(T2),
          o1 \in {NoEnt, File(Original(T1))} :
        fs = StartFs(a1, a2, z1, t1, t2, o1)
    /\ started = fs

Spec == Init /\ [][Next]_vars

\* the same run when it is not left standing: the event loop takes main() on
\* after every await, and the actor answers every prompt
InitLive ==
    /\ InitRun
    /\ phase = "first"
    /\ policy = AnyAnswer
    /\ legacySort = FALSE
    /\ config = <<[name |-> "Zebra", patterns |-> <<T1>>],
                  [name |-> "alpha", patterns |-> <<T1, T2>>]>>
    /\ \E a1 \in LinkEntries(Join(SyncDirOf("alpha"), T1), T1),
          z1 \in {File(Join(SyncDirOf("Zebra"), T1)), Symlink(TRUE, X)},
          t1 \in TargetEntries(T1) :
        fs = StartFs(a1, File(Join(SyncDirOf("alpha"), T2)), z1, t1, File(T2), NoEnt)
    /\ started = fs

\* main() has not come to its end and has not been thrown out of
Running == pc \notin {"done", "failed", "killed"}

\* where the run stands: the statement of main, the group and the link path
position == <<pc, gi, li>>

\* the run moves on from where it stands.  Every step of Next moves the
\* position, and a step of Next is possible exactly while the run is Running,
\* so weak fairness of Advance is weak fairness of Next; it is stated on the
\* position alone, which keeps what a step does to the filesystem out of the
\* question whether a step is possible.
Advance ==
    /\ Running
    /\ pc' \in {"main", "links", "askLink", "askEntity", "askTarget", "done", "failed"}
    /\ gi' \in 1..(MaxGroups + 1)
    /\ li' \in 1..(MaxPatterns + 1)

SpecLive == InitLive /\ [][Next]_vars /\ WF_position(Advance)

(***************************************************************************)
(* The same run where a mutating call may fail: a permission or I/O error  *)
(* makes the faulted call of fs-extra throw.                               *)
(***************************************************************************)
InitFault ==
    /\ InitRun
    /\ phase = "faulty"
    /\ policy = AnyAnswer
    /\ legacySort = FALSE
    /\ config = <<[name |-> "Zebra", patterns |-> <<T1>>],
                  [name |-> "alpha", patterns |-> <<T1, T2>>]>>
    /\ \E a1 \in LinkEntries(Join(SyncDirOf("alpha"), T1), T1),
          a2 \in LinkEntries(Join(SyncDirOf("alpha"), T2), T2),
          z1 \in LinkEntries(Join(SyncDirOf("Zebra"), T1), T1),
          t1 \in TargetEntries(T1),
          t2 \in TargetEntries(T2) :
        fs = StartFs(a1, a2, z1, t1, t2, NoEnt)
    /\ started = fs

SpecFault == InitFault /\ [][Next]_vars

(***************************************************************************)
(* Runs in succession.  The first run goes to its end.  Then either the    *)
(* program is run again on what the first run left; or the same run is     *)
(* taken again from the filesystem the first run started on, is stopped    *)
(* somewhere (between two steps, or at a mutating call of a processLink    *)
(* call), and the program is run once more from scratch.  The actor gives  *)
(* one answer per conflict category throughout.                            *)
(***************************************************************************)
\* a decision policy: the one answer the actor gives to each kind of prompt
Policies ==
    {[category \in {"link", "entity", "target"} |->
        {CASE category = "link" -> l [] category = "entity" -> e
           [] category = "target" -> t}] :
     l \in {"Skip", "Replace", "ReplaceAll"},
     e \in {"Skip", "Replace", "MoveRelink", "MoveRelinkAll"},
     t \in {"Skip", "Replace"}}

InitRerun ==
    /\ InitRun
    /\ phase = "first"
    /\ policy \in Policies
    /\ legacySort = FALSE
    /\ config = <<[name |-> "Zebra", patterns |-> <<T1>>],
                  [name |-> "alpha", patterns |-> <<T1, T2>>]>>
    /\ \E a1 \in {NoEnt, File(Join(SyncDirOf("alpha"), T1)), Symlink(TRUE, X),
                   Symlink(TRUE, T1)},
          a2 \in {NoEnt, File(Join(SyncDirOf("alpha"), T2))},
          z1 \in {NoEnt, File(Join(SyncDirOf("Zebra"), T1)), Symlink(TRUE, X)},
          t1 \in TargetEntries(T1) \cup {Symlink(TRUE, Join(SyncDirOf("alpha"), T1))},
          t2 \in {NoEnt, File(T2)},
          o1 \in {NoEnt, File(Original(T1))} :
        fs = StartFs(a1, a2, z1, t1, t2, o1)
    /\ started = fs

\* a new process: main() starts over on filesystem f
StartRun(p, f) ==
    /\ phase' = p
    /\ fs' = f
    /\ pc' = "start"
    /\ gi' = 1
    /\ li' = 1
    /\ action' = "none"
    /\ linkGroups' = <<>>
    /\ warnings' = <<>>
    /\ totalCreated' = 0
    /\ totalSkippedByChoice' = 0
    /\ totalSkippedExisting' = 0
    /\ totalSkippedMissingTarget' = 0
    /\ inquireExistingLinkToAnotherTargetAction' = "prompt"
    /\ inquireExistingSyncEntityAction' = "prompt"
    /\ inquireExistingTargetEntityAction' = "prompt"
    /\ prompts' = <<>>
    /\ answers' = <<>>
    /\ headers' = <<>>
    /\ log' = <<>>
    /\ calls' = <<>>
    /\ printed' = 0
    /\ exitCode' = 0
    /\ UNCHANGED <<config, legacySort, policy, started>>

\* the program is run a second time on what the first run left
Rerun ==
    /\ phase = "first"
    /\ pc = "done"
    /\ first' = [pc |-> pc, calls |-> calls, fs |-> fs]
    /\ StartRun("second", fs)

\* the first run is taken again from where it started, to be stopped this time
Replay ==
    /\ phase = "first"
    /\ pc = "done"
    /\ first' = [pc |-> pc, calls |-> calls, fs |-> fs]
    /\ StartRun("interrupted", started)

\* the process is terminated between two steps
Terminate ==
    /\ phase = "interrupted"
    /\ pc \notin {"done", "failed", "killed"}
    /\ pc' = "killed"
    /\ UNCHANGED <<genVars, runVars, fs, totals, stickyVars, gi, li, action, prompts,
                   answers, headers, log, calls, printed, exitCode>>

\* after the stop the program is run again from scratch
Recover ==
    /\ phase = "interrupted"
    /\ pc \in {"failed", "killed"}
    /\ first' = first
    /\ StartRun("recovery", fs)

NextRerun ==
    \/ Next
    \/ Rerun
    \/ Replay
    \/ Terminate
    \/ Recover

SpecRerun == InitRerun /\ [][NextRerun]_vars

(***************************************************************************)
(* generateLinkGroups alone, over generated configurations: every order of *)
(* up to MaxGroups group names, every list of up to MaxPatterns patterns   *)
(* (each group lists the same kinds of pattern, resolved against its own   *)
(* sync directory; the groups are expanded independently of each other).   *)
(***************************************************************************)
PatternKinds == {"t1", "t2", "root", "sync", "sub"}

PatternPath(kind, name) ==
    CASE kind = "t1" -> T1
      [] kind = "t2" -> T2
      [] kind = "root" -> Root
      [] kind = "sync" -> SyncDirOf(name)
      [] kind = "sub" -> Sub(name)

SeqsUpTo(S, n) == UNION {[1..k -> S] : k \in 0..n}

KeyOrders ==
    {s \in SeqsUpTo(GroupNames, MaxGroups) :
        Len(s) >= 1 /\ \A i, j \in 1..Len(s) : s[i] = s[j] => i = j}

ConfigOf(keys, kinds) ==
    [i \in 1..Len(keys) |->
        [name |-> keys[i],
         patterns |-> [j \in 1..Len(kinds) |-> PatternPath(kinds[j], keys[i])]]]

\* /t1 is a file; /t2, the entries at <syncDir>/t2 and <syncDir>/s may be there
GenFs(t2, l2, sub) ==
    WithParents(
        [p \in Paths |->
            IF p = T1 \/ (p = T2 /\ t2) THEN File(p)
            ELSE IF l2 /\ \E n \in GroupNames : p = Join(SyncDirOf(n), T2) THEN File(p)
            ELSE IF sub /\ \E n \in GroupNames : p = Sub(n) THEN File(p)
            ELSE EmptyFs[p]])

\* lists that name a pattern a second time after another one
RepeatedPatterns == {<<a, b, a>> : a \in PatternKinds, b \in PatternKinds}

InitGen ==
    /\ InitRun
    /\ phase = "first"
    /\ policy = AnyAnswer
    /\ legacySort \in BOOLEAN
    /\ \E keys \in KeyOrders,
          kinds \in SeqsUpTo(PatternKinds, MaxPatterns) \cup RepeatedPatterns :
        config = ConfigOf(keys, kinds)
    /\ \E t2 \in BOOLEAN, l2 \in BOOLEAN, sub \in BOOLEAN :
        fs = GenFs(t2, l2, sub)
    /\ started = fs

NextGen == GenerateLinkGroups

SpecGen == InitGen /\ [][NextGen]_vars

(***************************************************************************)
(* Properties.                                                             *)
(***************************************************************************)
Categories == {"link", "entity", "target"}

\* a processLink call returns or throws in this step
Completing == Len(calls') = Len(calls) + 1
New == calls'[Len(calls')]

\* the step changes the four counters by d
Counted(d) ==
    /\ totalCreated' = totalCreated + d[1]
    /\ totalSkippedByChoice' = totalSkippedByChoice + d[2]
    /\ totalSkippedExisting' = totalSkippedExisting + d[3]
    /\ totalSkippedMissingTarget' = totalSkippedMissingTarget + d[4]

\* call c met a conflict of the category
HasConflict(c, category) ==
    CASE category = "link" -> c.state = "SymlinkIncorrect"
      [] category = "entity" -> c.state = "PhysicalEntity"
      [] category = "target" ->
            c.state = "PhysicalEntity" /\ IsMoveRelink(c.action) /\ c.targetExists

\* the decision call c took for the category
DecisionOf(c, category) == IF category = "target" THEN c.targetAction ELSE c.action

\* the prompts issued while call c ran
PromptsOf(c, category) ==
    {i \in 1..Len(prompts) :
        prompts[i].link = c.linkPath /\ prompts[i].category = category}

\* an earlier call recorded an all-remaining decision for the category
StickyBefore(j, category) ==
    \E i \in 1..(j - 1) :
        HasConflict(calls[i], category)
            /\ DecisionOf(calls[i], category) \in foreverAnswers

\* C1: every processLink call that returns adds 1 to exactly one of the four
\* counters and leaves the other three alone; no other step changes a counter;
\* the counters always sum to the number of link paths processed.
C1_StatisticsConservation ==
    [][/\ IF Len(log') = Len(log) + 1
          THEN \E k \in 1..4 :
                 Counted([j \in 1..4 |-> IF j = k THEN 1 ELSE 0])
          ELSE Counted(<<0, 0, 0, 0>>)
       /\ totalCreated' + totalSkippedByChoice' + totalSkippedExisting'
            + totalSkippedMissingTarget' = Len(log')]_vars

\* a finished run over three link paths with three different outcomes
C1_Witness ==
    /\ pc = "done"
    /\ Len(log) = 3
    /\ totalCreated = 1
    /\ totalSkippedByChoice = 1
    /\ totalSkippedMissingTarget = 1

\* C2: once an all-remaining answer is given for a conflict category, every
\* later conflict of that category takes that decision and is not prompted;
\* under replace-all a later link that points elsewhere, its target there, is
\* removed to be replaced.
C2_StickyPropagation ==
    /\ \A i, j \in 1..Len(prompts) :
        i < j /\ prompts[i].category = prompts[j].category
            => answers[i].answer \notin foreverAnswers
    /\ \A category \in Categories : \A i, j \in 1..Len(calls) :
        (/\ i < j
         /\ HasConflict(calls[i], category)
         /\ DecisionOf(calls[i], category) \in foreverAnswers
         /\ HasConflict(calls[j], category))
        => /\ DecisionOf(calls[j], category) = DecisionOf(calls[i], category)
           /\ PromptsOf(calls[j], category) = {}
           /\ (category = "link" /\ DecisionOf(calls[j], category) = "ReplaceAll"
                    /\ calls[j].targetExists)
                => calls[j].ops[1] = [op |-> "remove", path |-> calls[j].linkPath]

\* two links that point elsewhere: replace-all on the first, the second replaced
\* with one prompt in all
C2_Witness ==
    \E i, j \in 1..Len(calls) :
        /\ i < j
        /\ calls[i].state = "SymlinkIncorrect" /\ calls[i].action = "ReplaceAll"
        /\ PromptsOf(calls[i], "link") # {}
        /\ calls[j].state = "SymlinkIncorrect" /\ calls[j].action = "ReplaceAll"
        /\ calls[j].counted = <<1, 0, 0, 0>>
        /\ fs[calls[j].linkPath] = Symlink(TRUE, calls[j].targetPath)
        /\ Len(prompts) = 1

\* C3: a conflict whose own category has no all-remaining decision recorded is
\* prompted, and takes the answer given to its own prompt, whatever the other
\* two categories have recorded.
C3_StickyIndependence ==
    \A category \in Categories : \A j \in 1..Len(calls) :
        (HasConflict(calls[j], category) /\ ~StickyBefore(j, category))
        => /\ PromptsOf(calls[j], category) # {}
           /\ \A i \in PromptsOf(calls[j], category) :
                answers[i].answer = DecisionOf(calls[j], category)

\* replace-all recorded for links that point elsewhere, then a physical entity
\* is prompted and answered move-and-relink
C3_Witness ==
    \E i, j \in 1..Len(calls) :
        /\ i < j
        /\ calls[i].state = "SymlinkIncorrect" /\ calls[i].action = "ReplaceAll"
        /\ calls[j].state = "PhysicalEntity" /\ calls[j].action = "MoveRelink"
        /\ PromptsOf(calls[j], "entity") # {}
        /\ inquireExistingLinkToAnotherTargetAction = "ReplaceAll"
        /\ inquireExistingSyncEntityAction = "prompt"

\* C4: a link path that is absent while its target does not exist is left
\* absent: the filesystem is unchanged and only the skipped-missing-target
\* counter moves; a link made at an absent link path never dangles.
C4_MissingTargetDowngrade ==
    [][(Completing /\ New.state = "Absent")
        => /\ ~New.targetExists
                => /\ fs' = fs
                   /\ ~LExists(fs', New.linkPath)
                   /\ Counted(<<0, 0, 0, 1>>)
           /\ LExists(fs', New.linkPath) => Exists(fs', New.linkPath)]_vars

\* an absent link path whose target is a dangling symlink was skipped
C4_Witness ==
    \E k \in 1..Len(calls) :
        /\ calls[k].state = "Absent"
        /\ ~calls[k].targetExists
        /\ calls[k].counted = <<0, 0, 0, 1>>
        /\ ~LExists(fs, calls[k].linkPath)

\* C5: replace or replace-all, for a link that points elsewhere or a physical
\* entity: with the target missing nothing changes on disk and the call counts
\* as skipped-missing-target; with the target there the entry is removed, the
\* link is made and the call counts as created.
C5_ReplaceDowngrade ==
    [][(Completing /\ New.state \in {"SymlinkIncorrect", "PhysicalEntity"}
            /\ IsReplace(New.action))
        => IF New.targetExists
           THEN /\ fs'[New.linkPath] = Symlink(TRUE, New.targetPath)
                /\ New.ops = <<[op |-> "remove", path |-> New.linkPath],
                               [op |-> "symlink", path |-> New.linkPath]>>
                /\ Counted(<<1, 0, 0, 0>>)
           ELSE /\ fs' = fs
                /\ Counted(<<0, 0, 0, 1>>)]_vars

\* C6: move-and-relink onto an occupied target path with replace at the target
\* prompt: nothing is changed before the target decision is in; then the entity
\* at the target path is renamed aside (it is at the suffixed path afterwards),
\* the entity at the link path is moved to the target path, and the link is
\* made last.
C6_MoveRelinkReplace ==
    [][/\ pc' = "askTarget" => fs' = fs
       /\ (Completing /\ New.state = "PhysicalEntity" /\ IsMoveRelink(New.action)
                /\ New.targetExists /\ IsReplace(New.targetAction))
            => /\ New.ops = <<[op |-> "rename", path |-> New.targetPath],
                              [op |-> "move", path |-> New.linkPath],
                              [op |-> "symlink", path |-> New.linkPath]>>
               /\ fs'[Original(New.targetPath)] = fs[New.targetPath]
               /\ fs'[New.targetPath] = fs[New.linkPath]
               /\ fs'[New.linkPath] = Symlink(TRUE, New.targetPath)]_vars

\* a move-and-relink with replace at the target prompt was carried out
C6_Witness ==
    \E k \in 1..Len(calls) :
        /\ calls[k].state = "PhysicalEntity" /\ calls[k].action = "MoveRelink"
        /\ calls[k].targetExists /\ calls[k].targetAction = "Replace"
        /\ PromptsOf(calls[k], "target") # {}
        /\ Len(calls[k].ops) = 3
        /\ fs[Original(calls[k].targetPath)] = File(calls[k].targetPath)

\* C7: move-and-relink onto an occupied target path with skip at the target
\* prompt: the filesystem is unchanged, no operation runs, and the call counts
\* once, as skipped-by-choice.
C7_MoveRelinkSkip ==
    [][(Completing /\ New.state = "PhysicalEntity" /\ IsMoveRelink(New.action)
            /\ New.targetExists /\ IsSkip(New.targetAction))
        => /\ fs' = fs
           /\ New.ops = <<>>
           /\ Counted(<<0, 1, 0, 0>>)
           /\ Len(log') = Len(log) + 1]_vars

\* a move-and-relink was given up at the target prompt
C7_Witness ==
    \E k \in 1..Len(calls) :
        /\ calls[k].state = "PhysicalEntity" /\ IsMoveRelink(calls[k].action)
        /\ calls[k].targetExists /\ calls[k].targetAction = "Skip"
        /\ calls[k].counted = <<0, 1, 0, 0>>
        /\ fs[calls[k].linkPath] = File(calls[k].linkPath)
        /\ fs[calls[k].targetPath] = File(calls[k].targetPath)

\* the candidates of a configured group: the patterns with something at the
\* path itself or at the same path below the sync directory
CandidateSet(entry) ==
    {entry.patterns[i] : i \in
        {i \in 1..Len(entry.patterns) :
            \/ LExists(fs, entry.patterns[i])
            \/ LExists(fs, Join(SyncDirOf(entry.name), entry.patterns[i]))}}

LinkTargets(g) == {g.links[i].targetPath : i \in 1..Len(g.links)}

\* the warnings that name the group and the path
WarningsFor(name, t) ==
    {i \in 1..Len(warnings) : warnings[i] = [name |-> name, path |-> t]}

\* C8 as stated: a candidate that is the sync directory or lies below it is
\* not among the group's links and is warned about.
C8_CycleExclusion_AsStated ==
    pc # "start" =>
        \A k \in 1..Len(linkGroups) :
            \A t \in CandidateSet(ConfigEntry(config, linkGroups[k].name)) :
                IsPrefix(linkGroups[k].syncDir, t)
                    => /\ t \notin LinkTargets(linkGroups[k])
                       /\ WarningsFor(linkGroups[k].name, t) # {}

\* C8, amended: a candidate that is the sync directory or one of its ancestor
\* directories is not among the group's links and is warned about once, with
\* the group's name and the path; a candidate below the sync directory is
\* linked and not warned about.
C8_CycleExclusion ==
    pc # "start" =>
        \A k \in 1..Len(linkGroups) :
            \A t \in CandidateSet(ConfigEntry(config, linkGroups[k].name)) :
                /\ IsPrefix(t, linkGroups[k].syncDir)
                    => /\ t \notin LinkTargets(linkGroups[k])
                       /\ Cardinality(WarningsFor(linkGroups[k].name, t)) = 1
                /\ (IsPrefix(linkGroups[k].syncDir, t) /\ t # linkGroups[k].syncDir)
                    => /\ t \in LinkTargets(linkGroups[k])
                       /\ WarningsFor(linkGroups[k].name, t) = {}

\* a group whose candidates were its sync directory and the root directory
\* above it: both were dropped with a warning
C8_Witness ==
    /\ pc = "main"
    /\ \E k \in 1..Len(linkGroups) :
        /\ linkGroups[k].links = <<>>
        /\ WarningsFor(linkGroups[k].name, linkGroups[k].syncDir) # {}
        /\ WarningsFor(linkGroups[k].name, Root) # {}

\* C9: no target in a group's links is the sync directory or an ancestor
\* directory of it, and no candidate vanishes silently: each one is either
\* linked or warned about.
C9_LinkGroupInvariant ==
    pc # "start" =>
        \A k \in 1..Len(linkGroups) :
            /\ \A t \in LinkTargets(linkGroups[k]) :
                    ~IsPrefix(t, linkGroups[k].syncDir)
            /\ \A t \in CandidateSet(ConfigEntry(config, linkGroups[k].name)) :
                    t \in LinkTargets(linkGroups[k])
                        <=> WarningsFor(linkGroups[k].name, t) = {}

\* a group with one target linked and the root directory dropped
C9_Witness ==
    /\ pc = "main"
    /\ \E k \in 1..Len(linkGroups) :
        /\ LinkTargets(linkGroups[k]) = {T1}
        /\ WarningsFor(linkGroups[k].name, Root) # {}

UpperName(name) == ToUpperCase(CharCodes[name])

\* the place of target t among the patterns of the configured group
PatternIndex(name, t) ==
    LET entry == ConfigEntry(config, name)
    IN  CHOOSE i \in 1..Len(entry.patterns) : entry.patterns[i] = t

\* C10: the groups are entered in the order of their upper-cased names, the
\* link paths of a group are all processed before any of a later group, and
\* within a group in the order of the group's patterns: the order is fixed by
\* the configuration, whatever the order of its keys.
C10_DeterministicOrdering ==
    /\ \A i, j \in 1..Len(headers) :
        i < j => ~StrLess(UpperName(headers[j]), UpperName(headers[i]))
    /\ \A i \in 1..Len(log) : log[i].group = headers[Len(headers)]
            \/ \E h \in 1..(Len(headers) - 1) : log[i].group = headers[h]
    /\ \A i, j \in 1..Len(log) :
        i < j =>
            IF log[i].group = log[j].group
            THEN PatternIndex(log[i].group, log[i].targetPath)
                    < PatternIndex(log[j].group, log[j].targetPath)
            ELSE ~StrLess(UpperName(log[j].group), UpperName(log[i].group))

\* Zebra is the first key of the configuration; alpha was processed first,
\* both of its link paths before the one of Zebra
C10_Witness ==
    /\ pc = "done"
    /\ config[1].name = "Zebra"
    /\ headers = <<"alpha", "Zebra">>
    /\ Len(log) = 3
    /\ log[1].group = "alpha" /\ log[2].group = "alpha" /\ log[3].group = "Zebra"

(***************************************************************************)
(* Two runs in succession.                                                 *)
(***************************************************************************)
\* the actor replaces nothing and moves nothing: every conflict is skipped
NoReplacement == policy["link"] = {"Skip"} /\ policy["entity"] = {"Skip"}

\* the call of the first run for the link path
FirstCallsOf(linkPath) ==
    {k \in 1..Len(first.calls) : first.calls[k].linkPath = linkPath}

\* the first run made the link at linkPath or found it right
FirstKept(linkPath) ==
    \E k \in FirstCallsOf(linkPath) :
        first.calls[k].counted \in {<<1, 0, 0, 0>>, <<0, 0, 1, 0>>}

C12_RecoveryByRerun ==
    (phase = "recovery" /\ pc = "done") => fs = first.fs

(***************************************************************************)
(* Failures of the filesystem.                                             *)
(***************************************************************************)
\* C13: when a mutating call (ensureSymlink, removeSync, renameSync, moveSync)
\* fails in a processLink call, the run is not aborted: the call is over, the
\* loop goes on to the next link path or the next group, and the run ends with
\* the totals printed.
C13_FailureIsolation ==
    [][(Completing /\ New.failed)
        => /\ pc' \in {"links", "main"}
           /\ (li' = li + 1 \/ gi' = gi + 1)]_vars

\* C14: at the end of a run the exit status is not 0 when a filesystem
\* operation of some link path failed, and 0 when none did.
C14_ExitStatus ==
    /\ pc = "failed" => exitCode # 0
    /\ pc = "done" => exitCode = 0 /\ \A k \in 1..Len(calls) : ~calls[k].failed

(***************************************************************************)
(* Decisions and actions.                                                  *)
(***************************************************************************)
Waiting == {"askLink", "askEntity", "askTarget"}

\* the decision d of the category was obtained for the call that ends in this
\* step: it is the recorded one, or the answer to a prompt issued for its link path
Obtained(c, category, d) ==
    \/ StickyFor(category) # "prompt" /\ d = StickyFor(category)
    \/ \E i \in 1..Len(answers') :
          /\ prompts[i].link = c.linkPath
          /\ prompts[i].category = category
          /\ answers'[i] = [category |-> category, answer |-> d]

\* C15: a step that leaves the engine waiting for a decision changes nothing on
\* the filesystem; while it waits, the only step is the answer to the open
\* prompt, and it is the same link path that goes on (no other link path is
\* classified or changed); a call for a link that points elsewhere, or for a
\* physical entity, ends with a decision obtained for its conflict, and renames
\* the entity at its target only with a decision obtained for the target.
C15_DecisionBeforeAction ==
    [][/\ pc' \in Waiting
            => fs' = fs /\ calls' = calls /\ gi' = gi /\ li' = li
       /\ pc \in Waiting
            => /\ Len(answers') = Len(answers) + 1
               /\ Len(prompts) = Len(answers')
               /\ prompts[Len(prompts)].link = CurLinkPath
               /\ Completing => New.linkPath = CurLinkPath
       /\ pc \notin Waiting => answers' = answers
       /\ (Completing /\ New.state = "SymlinkIncorrect")
            => Obtained(New, "link", New.action)
       /\ (Completing /\ New.state = "PhysicalEntity")
            => /\ Obtained(New, "entity", New.action)
               /\ (\E i \in 1..Len(New.ops) : New.ops[i].op = "rename")
                    => Obtained(New, "target", New.targetAction)
       /\ (Completing /\ New.state \in {"Absent", "SymlinkCorrect"})
            => prompts' = prompts /\ pc \notin Waiting]_vars

\* a physical entity was moved after two prompts, and a later one was removed on
\* a recorded decision
C15_Witness ==
    \E i, j \in 1..Len(calls) :
        /\ i < j
        /\ calls[i].state = "PhysicalEntity"
        /\ Len(calls[i].ops) = 3
        /\ PromptsOf(calls[i], "entity") # {}
        /\ PromptsOf(calls[i], "target") # {}
        /\ calls[j].state = "PhysicalEntity"
        /\ calls[j].ops # <<>>
        /\ PromptsOf(calls[j], "entity") = {}

\* C16: a link path that holds a symlink whose target, taken as it is when
\* absolute and resolved against the link's directory when relative, is the
\* desired target: nobody is prompted, the filesystem is left as it is, the
\* already-correct counter alone moves, and the loop goes on.
C16_SymlinkCorrectNoOp ==
    [][(/\ pc = "links"
        /\ LExists(fs, CurLinkPath)
        /\ fs[CurLinkPath].k = "link"
        /\ (IF fs[CurLinkPath].abs
            THEN fs[CurLinkPath].to
            ELSE Resolve(Dirname(CurLinkPath), fs[CurLinkPath].to)) = CurTarget)
        => /\ prompts' = prompts
           /\ answers' = answers
           /\ fs' = fs
           /\ Counted(<<0, 0, 1, 0>>)
           /\ Completing
           /\ New.ops = <<>>
           /\ pc' \in {"links", "main"}]_vars

\* a relative link to the desired target was found correct, and an absolute one
C16_Witness ==
    \E i, j \in 1..Len(calls) :
        /\ calls[i].state = "SymlinkCorrect"
        /\ ~fs[calls[i].linkPath].abs
        /\ fs[calls[i].linkPath].to # calls[i].targetPath
        /\ calls[i].counted = <<0, 0, 1, 0>>
        /\ calls[j].state = "SymlinkCorrect"
        /\ fs[calls[j].linkPath].abs
        /\ totalSkippedExisting >= 2

\* C17: a link path that holds a symlink to something that does not exist,
\* other than the desired target, is a link that points elsewhere: the actor is
\* prompted when no decision is recorded for that conflict, the recorded
\* decision is taken when there is one, and the run goes on.
C17_DanglingSymlinkConflict ==
    [][(/\ pc = "links"
        /\ LExists(fs, CurLinkPath)
        /\ fs[CurLinkPath].k = "link"
        /\ LinkTarget(fs, CurLinkPath) # CurTarget
        /\ ~Exists(fs, LinkTarget(fs, CurLinkPath)))
        => IF StickyFor("link") = "prompt"
           THEN /\ pc' = "askLink"
                /\ Len(prompts') = Len(prompts) + 1
                /\ prompts'[Len(prompts')].category = "link"
           ELSE /\ Completing
                /\ New.state = "SymlinkIncorrect"
                /\ New.action = StickyFor("link")
                /\ pc' \in {"links", "main"}]_vars

(***************************************************************************)
(* The log.                                                                *)
(***************************************************************************)
\* the processing of the current link path ends in this step
LinkPathOver ==
    /\ pc \in {"links"} \cup Waiting
    /\ pc' \in {"links", "main", "failed"}

\* C18: every link path that is processed gives exactly one log line, which
\* pairs the link path with its target and carries 'Skipped (missing target)'
\* exactly when the skipped-missing-target counter moved for that link path;
\* no other step logs a link line.
C18_OneLogLinePerLinkPath ==
    [][IF LinkPathOver
       THEN /\ Len(log') = Len(log) + 1
            /\ SubSeq(log', 1, Len(log)) = log
            /\ log'[Len(log')].linkPath = CurLinkPath
            /\ log'[Len(log')].targetPath = CurTarget
            /\ log'[Len(log')].notableOutcome = SkippedMissingTarget
                    <=> totalSkippedMissingTarget' = totalSkippedMissingTarget + 1
       ELSE log' = log]_vars

(***************************************************************************)
(* The creation of the link.                                               *)
(***************************************************************************)
\* C19: whenever a processLink call gets to fs.ensureSymlink, nothing is at
\* the link path at that moment and the target path exists.
C19_CreationPrecondition ==
    [][(Completing /\ New.atCreate.reached)
        => /\ ~New.atCreate.linkOccupied
           /\ New.atCreate.targetExists]_vars

\* the creation was reached on an absent link path, after a replace of a link
\* that pointed elsewhere, and after a move-and-relink
C19_Witness ==
    \E i, j, k \in 1..Len(calls) :
        /\ calls[i].state = "Absent"
        /\ calls[i].atCreate.reached
        /\ calls[j].state = "SymlinkIncorrect"
        /\ IsReplace(calls[j].action)
        /\ calls[j].atCreate.reached
        /\ calls[k].state = "PhysicalEntity"
        /\ IsMoveRelink(calls[k].action)
        /\ calls[k].atCreate.reached

\* C20: a physical entity at the link path, move-and-relink (once or for all),
\* nothing at the target path: the entity is moved to the target path, the link
\* path becomes a symlink to the target path, no target prompt is issued for
\* the link path, and the call is counted as created.
C20_MoveRelinkNoCollision ==
    [][(/\ Completing
        /\ New.state = "PhysicalEntity"
        /\ IsMoveRelink(New.action)
        /\ ~LExists(fs, New.targetPath))
        => /\ fs'[New.targetPath] = fs[New.linkPath]
           /\ fs'[New.linkPath] = Symlink(TRUE, New.targetPath)
           /\ New.ops = <<[op |-> "move", path |-> New.linkPath],
                          [op |-> "symlink", path |-> New.linkPath]>>
           /\ New.targetAction = "none"
           /\ \A i \in 1..Len(prompts') :
                 ~(prompts'[i].category = "target" /\ prompts'[i].link = New.linkPath)
           /\ pc \in {"links", "askEntity"}
           /\ Counted(<<1, 0, 0, 0>>)
           /\ New.counted = <<1, 0, 0, 0>>]_vars

\* an entity was moved to its free target path, once on an answer and once on
\* the recorded move-and-relink-all
C20_Witness ==
    \E i, j \in 1..Len(calls) :
        /\ i < j
        /\ calls[i].state = "PhysicalEntity"
        /\ calls[i].action = "MoveRelinkAll"
        /\ ~calls[i].targetExists
        /\ calls[i].counted = <<1, 0, 0, 0>>
        /\ calls[j].state = "PhysicalEntity"
        /\ calls[j].action = "MoveRelinkAll"
        /\ ~calls[j].targetExists
        /\ calls[j].counted = <<1, 0, 0, 0>>
        /\ fs[calls[j].targetPath].id = calls[j].linkPath
        /\ fs[calls[j].linkPath] = Symlink(TRUE, calls[j].targetPath)

(***************************************************************************)
(* The sticky memories, continued.                                         *)
(***************************************************************************)
\* C21: with move-and-relink-all recorded for physical entities, a later
\* physical entity whose target path holds something (existsSync) is not
\* prompted for itself but still brings the target prompt, the filesystem
\* untouched until it is answered; only a decision recorded for the target
\* category itself is taken without a prompt.
C21_TargetCollisionStillPrompts ==
    [][(/\ pc = "links"
        /\ inquireExistingSyncEntityAction = "MoveRelinkAll"
        /\ LinkState(fs, CurLinkPath, CurTarget) = "PhysicalEntity"
        /\ Exists(fs, CurTarget))
        => IF inquireExistingTargetEntityAction = "prompt"
           THEN /\ pc' = "askTarget"
                /\ prompts' = Append(prompts, [category |-> "target",
                                                link |-> CurLinkPath,
                                                path |-> CurTarget])
                /\ fs' = fs
                /\ ~Completing
           ELSE /\ prompts' = prompts
                /\ Completing
                /\ New.action = "MoveRelinkAll"
                /\ New.targetAction = inquireExistingTargetEntityAction]_vars

\* after a move-and-relink-all a later physical entity with its target path
\* taken brought the target prompt, and no prompt for itself
C21_Witness ==
    \E i, j \in 1..Len(calls) :
        /\ i < j
        /\ calls[i].state = "PhysicalEntity"
        /\ calls[i].action = "MoveRelinkAll"
        /\ PromptsOf(calls[i], "entity") # {}
        /\ calls[j].state = "PhysicalEntity"
        /\ calls[j].action = "MoveRelinkAll"
        /\ calls[j].targetExists
        /\ PromptsOf(calls[j], "entity") = {}
        /\ PromptsOf(calls[j], "target") # {}

\* the answers given so far to prompts of the category for other link paths
\* than the one of call c
EarlierAnswers(c, category) ==
    {answers[i].answer : i \in {k \in 1..Len(answers) :
        prompts[k].category = category /\ prompts[k].link # c.linkPath}}

\* C22: an answer is recorded for its category exactly when it is skip-all,
\* replace-all or move-and-relink-all; skip, replace and move-and-relink leave
\* all three memories as they were, and so does every step that is not an
\* answer; a conflict met when only such once-answers were given for its
\* category is prompted again.
C22_OnceDecisionsNotSticky ==
    [][/\ IF Len(answers') = Len(answers) + 1
          THEN LET a == answers'[Len(answers')]
                   recorded(category, before) ==
                       IF a.category = category
                            /\ a.answer \in {"SkipAll", "ReplaceAll", "MoveRelinkAll"}
                       THEN a.answer
                       ELSE before
               IN  /\ inquireExistingLinkToAnotherTargetAction' =
                        recorded("link", inquireExistingLinkToAnotherTargetAction)
                   /\ inquireExistingSyncEntityAction' =
                        recorded("entity", inquireExistingSyncEntityAction)
                   /\ inquireExistingTargetEntityAction' =
                        recorded("target", inquireExistingTargetEntityAction)
          ELSE UNCHANGED stickyVars
       /\ \A category \in Categories : \A j \in 1..Len(calls) :
            (/\ HasConflict(calls[j], category)
             /\ EarlierAnswers(calls[j], category)
                    \subseteq {"Skip", "Replace", "MoveRelink"})
            => PromptsOf(calls[j], category) # {}]_vars

\* move-and-relink was answered and the next physical entity was prompted
\* again; a replace was answered for a link; the memories are still empty
C22_Witness ==
    /\ inquireExistingLinkToAnotherTargetAction = "prompt"
    /\ inquireExistingSyncEntityAction = "prompt"
    /\ inquireExistingTargetEntityAction = "prompt"
    /\ \E i, j, k \in 1..Len(answers) :
        /\ i < j
        /\ answers[i] = [category |-> "entity", answer |-> "MoveRelink"]
        /\ answers[j].category = "entity"
        /\ prompts[i].link # prompts[j].link
        /\ answers[k] = [category |-> "link", answer |-> "Replace"]

(***************************************************************************)
(* Skips.                                                                  *)
(***************************************************************************)
\* C23: a link that points elsewhere, or a physical entity, with skip or
\* skip-all as its decision (answered or recorded): no mutating call is made,
\* the whole filesystem is as before (the entry at the link path and the target
\* path with it), no link is made, and the skipped-by-choice counter alone
\* moves, the target being there or not.
C23_SkipLeavesUnchanged ==
    [][(/\ Completing
        /\ New.state \in {"SymlinkIncorrect", "PhysicalEntity"}
        /\ IsSkip(New.action))
        => /\ fs' = fs
           /\ New.ops = <<>>
           /\ ~New.atCreate.reached
           /\ ~New.failed
           /\ Counted(<<0, 1, 0, 0>>)
           /\ log'[Len(log')].notableOutcome = ""]_vars

\* skips of a link and of a physical entity, with the target there for the one
\* and missing for the other, one of them on a recorded skip-all
C23_Witness ==
    \E i, j \in 1..Len(calls) :
        /\ calls[i].state = "SymlinkIncorrect"
        /\ IsSkip(calls[i].action)
        /\ calls[i].counted = <<0, 1, 0, 0>>
        /\ calls[j].state = "PhysicalEntity"
        /\ IsSkip(calls[j].action)
        /\ calls[j].counted = <<0, 1, 0, 0>>
        /\ calls[i].targetExists # calls[j].targetExists
        /\ \E c \in {i, j}, category \in {"link", "entity"} :
              HasConflict(calls[c], category) /\ PromptsOf(calls[c], category) = {}

(***************************************************************************)
(* The expansion of the targets.                                           *)
(***************************************************************************)
\* the candidates of a configured group as they are found: pattern by pattern,
\* the match at the path itself, then the match below the sync directory
Concatenated(entry) ==
    LET found(p) ==
            (IF LExists(fs, p) THEN <<p>> ELSE <<>>)
                \o (IF LExists(fs, Join(SyncDirOf(entry.name), p)) THEN <<p>> ELSE <<>>)
        RECURSIVE upTo(_)
        upTo(n) == IF n = 0 THEN <<>> ELSE upTo(n - 1) \o found(entry.patterns[n])
    IN  upTo(Len(entry.patterns))

FirstSeen(s, e) == CHOOSE i \in 1..Len(s) : s[i] = e /\ \A j \in 1..(i - 1) : s[j] # e

\* C24: the targets of a group are candidates found for its patterns, each
\* path once, in the order in which the paths are first found; every path found
\* is there once, as a target or, when it is dropped as cyclic, as one warning.
C24_FirstSeenOrder ==
    pc # "start" =>
        \A k \in 1..Len(linkGroups) :
            LET entry == ConfigEntry(config, linkGroups[k].name)
                found == Concatenated(entry)
                links == linkGroups[k].links
            IN  /\ \A i \in 1..Len(links) : Contains(found, links[i].targetPath)
                /\ \A i, j \in 1..Len(links) :
                        i < j => /\ links[i].targetPath # links[j].targetPath
                                 /\ FirstSeen(found, links[i].targetPath)
                                        < FirstSeen(found, links[j].targetPath)
                /\ \A n \in 1..Len(found) :
                        Cardinality({i \in 1..Len(links) :
                                        links[i].targetPath = found[n]})
                            + Cardinality(WarningsFor(entry.name, found[n])) = 1

\* a group that names /t1 again after /t2, both found more than once: its
\* targets are /t1, /t2 in this order
C24_Witness ==
    /\ pc = "main"
    /\ \E k \in 1..Len(linkGroups) :
        LET entry == ConfigEntry(config, linkGroups[k].name)
        IN  /\ entry.patterns = <<T1, T2, T1>>
            /\ Len(Concatenated(entry)) >= 4
            /\ [i \in 1..Len(linkGroups[k].links) |-> linkGroups[k].links[i].targetPath]
                    = <<T1, T2>>

(***************************************************************************)
(* The end of the run.                                                     *)
(***************************************************************************)
\* the calls made for link name i of group k
CallsOf(k, i) ==
    {c \in 1..Len(calls) :
        /\ calls[c].group = linkGroups[k].name
        /\ calls[c].linkPath = Join(linkGroups[k].syncDir, linkGroups[k].links[i].linkName)}

\* C25: with every prompt answered, the run comes to its end, which is the
\* printed summary unless a filesystem call has thrown; the summary is printed
\* once, at the end and not before: when it is printed every link path of every
\* group has been processed exactly once and has its log line, and no step is
\* taken after the end; every step before it moves the run on.
C25_RunCompletion ==
    /\ <>(pc \in {"done", "failed"})
    /\ [](/\ printed <= 1
          /\ printed = 1 <=> pc = "done"
          /\ pc = "done"
                => /\ \A k \in 1..Len(linkGroups) :
                        \A i \in 1..Len(linkGroups[k].links) :
                            Cardinality(CallsOf(k, i)) = 1
                   /\ Len(headers) = Len(linkGroups)
                   /\ Len(log) = Len(calls)
                   /\ \A c \in 1..Len(calls) : ~calls[c].failed)
    /\ [][pc \notin {"done", "failed"} /\ position' # position]_vars

\* a run of three link paths in two groups, with prompts on the way, has
\* printed its summary
C25_Witness ==
    /\ pc = "done"
    /\ printed = 1
    /\ Len(linkGroups) = 2
    /\ Len(calls) = 3
    /\ Len(answers) >= 2

(***************************************************************************)
(* The preserved originals.                                                *)
(***************************************************************************)
\* C26: what lies at '<target>.livelink.original' stays there for the rest of
\* the run, whether it was there before the run or was renamed aside by a
\* replace decision for an occupied target: no later step, of this group or of
\* another, overwrites or removes it.
C26_OriginalsSurvive ==
    [][\A t \in {T1, T2} :
            LExists(fs, Original(t)) => fs'[Original(t)] = fs[Original(t)]]_vars

(***************************************************************************)
(* The sticky memory over the whole run.                                   *)
(***************************************************************************)
\* C27: a memory holds "prompt" or an all-remaining answer; once it holds an
\* answer, no step of the run, in this group or a later one, changes or clears
\* it, and no step issues a prompt of its category.
C27_StickyWriteOnce ==
    /\ [](\A category \in Categories :
            StickyFor(category) \in {"prompt"} \cup foreverAnswers)
    /\ [][\A category \in Categories :
            StickyFor(category) # "prompt"
                => /\ StickyFor(category)' = StickyFor(category)
                   /\ \A i \in (Len(prompts) + 1)..Len(prompts') :
                        prompts'[i].category # category]_vars

\* a decision recorded in the first group was taken without a prompt in the
\* second, and is still the recorded one when the summary is printed
C27_Witness ==
    /\ pc = "done"
    /\ \E category \in Categories : \E i, j \in 1..Len(calls) :
        /\ i < j
        /\ calls[i].group # calls[j].group
        /\ HasConflict(calls[i], category)
        /\ HasConflict(calls[j], category)
        /\ PromptsOf(calls[i], category) # {}
        /\ PromptsOf(calls[j], category) = {}
        /\ DecisionOf(calls[i], category) \in foreverAnswers
        /\ StickyFor(category) = DecisionOf(calls[i], category)
        /\ Cardinality({k \in 1..Len(prompts) : prompts[k].category = category}) = 1

(***************************************************************************)
(* The link names of a group.                                              *)
(***************************************************************************)
\* C28: the link name of a target is the target path itself, so no two links
\* of a group have the same link name or the same link path, no target is
\* dropped by the reduction, and a group has as many link paths as it has
\* distinct candidates that are neither its sync directory nor a directory
\* above it.
C28_LinkNamesInjective ==
    pc # "start" =>
        \A k \in 1..Len(linkGroups) :
            LET g == linkGroups[k]
                entry == ConfigEntry(config, g.name)
                kept == {t \in CandidateSet(entry) : ~IsPrefix(t, g.syncDir)}
            IN  /\ \A i \in 1..Len(g.links) : g.links[i].linkName = g.links[i].targetPath
                /\ \A i, j \in 1..Len(g.links) :
                        i # j => /\ g.links[i].linkName # g.links[j].linkName
                                 /\ Join(g.syncDir, g.links[i].linkName)
                                        # Join(g.syncDir, g.links[j].linkName)
                /\ LinkTargets(g) = kept
                /\ Len(g.links) = Cardinality(kept)

\* a group whose patterns find the same path more than once: two targets, two
\* link names
C28_Witness ==
    /\ pc = "main"
    /\ \E k \in 1..Len(linkGroups) :
        LET g == linkGroups[k]
            entry == ConfigEntry(config, g.name)
        IN  /\ Len(g.links) = 2
            /\ Len(Concatenated(entry)) > Cardinality(CandidateSet(entry))
            /\ {g.links[i].linkName : i \in 1..Len(g.links)} = {T1, T2}
====
